---- MODULE Spec2Model ----
(***************************************************************************)
(* research/object_detection/legacy/train.py: the training executable.     *)
(* Each process of a job runs main once: it checks train_dir, optionally   *)
(* deletes it, creates it, loads the configuration bundle, copies the      *)
(* config files, overrides num_steps, resolves its role from TF_CONFIG,    *)
(* starts a server in distributed mode and calls trainer.train.            *)
(* The training directory is shared by all processes.                      *)
(***************************************************************************)
EXTENDS Integers, Sequences, FiniteSets, TLC

VARIABLES
    flags,      \* flags[p]: the parsed command line of process p (FLAGS)
    environ,    \* environ[p]: the TF_CONFIG variable of process p
    fileSteps,  \* num_steps stored in the train configuration on disk
    dir,        \* the training directory: [exists, files]
    pc,         \* pc[p]: position of process p in main
    err,        \* err[p]: the exception that left main, "none" if none
    caught,     \* caught[p]: the exception main swallowed, "none" if none
    configs,    \* configs[p]: the configuration bundle
    wired,      \* wired[p]: what model_fn / create_input_dict_fn captured
    role,       \* role[p]: the role parameters
    server,     \* server[p]: the servers started, in order
    trainCalls, \* trainCalls[p]: the argument lists of trainer.train, in order
    loads,      \* loads[p]: the loader calls, in order
    log,        \* log[p]: operations on the training directory, in order
    runs,       \* runs[p]: number of the current run of main
    afterReset  \* afterReset[p]: the directory after each run's reset-and-create

vars == <<flags, environ, fileSteps, dir, pc, err, caught, configs, wired, role,
          server, trainCalls, loads, log, runs, afterReset>>

-----------------------------------------------------------------------------
(* Bounds of the model *)

NumProcs == 2
MaxWorkers == 2
MaxPs == 2
MaxIndex == 1
MaxSteps == 2
MaxRuns == 2

Procs == 1..NumProcs

-----------------------------------------------------------------------------
(* Flags, files and the environment *)

PipelinePath == "pipeline.pbtxt"
ModelPath == "model.pbtxt"
TrainPath == "train.pbtxt"
InputPath == "input.pbtxt"
MissingPath == "missing.pbtxt"

\* the configuration files that exist on disk
ExistingFiles == {PipelinePath, ModelPath, TrainPath, InputPath}

\* an address: '' is EmptyMaster
EmptyMaster == [scheme |-> "", job |-> "", index |-> 0]
FlagMaster == [scheme |-> "grpc", job |-> "flaghost", index |-> 0]

DefaultFlags ==
    [train_dir |-> "train_dir", reset_train |-> 0, task |-> 0,
     pipeline_config_path |-> "", model_config_path |-> "",
     train_config_path |-> "", input_config_path |-> "", n_steps |-> 0,
     master |-> EmptyMaster, worker_replicas |-> 1, ps_tasks |-> 0]

\* a list of k host:port entries
Hosts(k) == [i \in 1..k |-> i]

NoCluster == [has_worker |-> FALSE, worker |-> <<>>, has_ps |-> FALSE, ps |-> <<>>]
NoTask == [type |-> "", index |-> 0]

\* the cluster mappings: 'worker' and 'ps' each absent or a list
ClusterSet ==
    {[has_worker |-> hw, worker |-> IF hw THEN Hosts(k) ELSE <<>>,
      has_ps |-> hp, ps |-> IF hp THEN Hosts(m) ELSE <<>>] :
        hw \in BOOLEAN, k \in 0..MaxWorkers, hp \in BOOLEAN, m \in 0..MaxPs}

TaskSet == {[type |-> t, index |-> i] : t \in {"master", "worker", "ps"}, i \in 0..MaxIndex}

\* TF_CONFIG unset
NoTfConfig ==
    [set |-> FALSE, has_cluster |-> FALSE, cluster |-> NoCluster,
     has_task |-> FALSE, task |-> NoTask]

\* TF_CONFIG set to a JSON object with optional 'cluster' and 'task'
TfConfigSet ==
    {[set |-> TRUE, has_cluster |-> hc, cluster |-> IF hc THEN c ELSE NoCluster,
      has_task |-> ht, task |-> IF ht THEN t ELSE NoTask] :
        hc \in BOOLEAN, c \in ClusterSet, ht \in BOOLEAN, t \in TaskSet}

EnvSet == {NoTfConfig} \cup TfConfigSet

NoDir == [exists |-> FALSE, files |-> {}]
EmptyDir == [exists |-> TRUE, files |-> {}]
StaleDir == [exists |-> TRUE, files |-> {"model.ckpt", "pipeline.config"}]

-----------------------------------------------------------------------------
(* The decisions of main *)

\* a reset that does not test os.path.isdir
ShouldResetNoIsdir(f, isdir) == f.reset_train # 0

\* line 123: FLAGS.reset_train and os.path.isdir(FLAGS.train_dir)
ShouldReset(f, isdir) == f.reset_train # 0 /\ isdir

\* lines 127, 131, 140: FLAGS.task == 0
IsPrimary(f) == f.task = 0

\* the three separate paths taking precedence when given
UsePipelineUnlessModel(f) == f.pipeline_config_path # "" /\ f.model_config_path = ""

\* line 128: FLAGS.pipeline_config_path
UsePipeline(f) == f.pipeline_config_path # ""

\* lines 141-143: the copies of the three-file mode
MultiCopies(f) ==
    <<[name |-> "model.config", src |-> f.model_config_path],
      [name |-> "train.config", src |-> f.train_config_path],
      [name |-> "input.config", src |-> f.input_config_path]>>

\* an override that also applies n_steps = 0
OverrideNumStepsFromZero(n_steps, loaded) == IF n_steps >= 0 THEN n_steps ELSE loaded

\* lines 150-151: the num_steps override
OverrideNumSteps(n_steps, loaded) == IF n_steps > 0 THEN n_steps ELSE loaded

\* line 167-168: env = json.loads(os.environ.get('TF_CONFIG', '{}')); env.get('cluster')
\* cluster_data is used only where it is truthy: a non-empty mapping
ClusterTruthy(e) ==
    e.set /\ e.has_cluster /\ (e.cluster.has_worker \/ e.cluster.has_ps)

\* line 170: env.get('task', None) or {'type': 'master', 'index': 0}
TaskData(e) == IF e.set /\ e.has_task THEN e.task ELSE [type |-> "master", index |-> 0]

\* the worker count without the master
WorkerReplicasNoMaster(e) ==
    IF e.set /\ e.has_cluster /\ e.cluster.has_worker THEN Len(e.cluster.worker) ELSE 1

\* lines 175, 181-183
WorkerReplicas(e) ==
    IF ClusterTruthy(e) /\ e.cluster.has_worker THEN Len(e.cluster.worker) + 1 ELSE 1

\* lines 174, 184-185
PsTasks(e) ==
    IF ClusterTruthy(e) /\ e.cluster.has_ps THEN Len(e.cluster.ps) ELSE 0

\* the precondition with the comparison off by one
TopologyErrorOffByOne(worker_replicas, ps_tasks) == worker_replicas > 1 /\ ps_tasks < 0

\* line 187
TopologyError(worker_replicas, ps_tasks) == worker_replicas > 1 /\ ps_tasks < 1

\* line 190
Distributed(worker_replicas, ps_tasks) == worker_replicas >= 1 /\ ps_tasks > 0

\* a test for a job name no descriptor uses
IsPsRoleWrongName(t) == t.type = "parameter_server"

\* line 195
IsPsRole(t) == t.type = "ps"

\* 'lonely_worker'
LonelyWorker == [name |-> "lonely_worker", sep |-> "", index |-> 0]

\* line 199: '%s/task:%d' % (type, index)
JobName(t) == [name |-> t.type, sep |-> "/task:", index |-> t.index]

\* server.target of the server started for task t
ServerTarget(t) == [scheme |-> "grpc", job |-> t.type, index |-> t.index]

\* the role of a single worker taken from the command line
SingleRoleFromFlags(f, e) ==
    [ps_tasks |-> f.ps_tasks, worker_replicas |-> f.worker_replicas,
     worker_job_name |-> LonelyWorker, task |-> f.task, is_chief |-> TRUE,
     master |-> f.master]

\* lines 174-185: the role of a single worker, with the counts of the cluster;
\* FLAGS (f) is in scope and none of its fields is read
SingleRole(f, e) ==
    [ps_tasks |-> PsTasks(e), worker_replicas |-> WorkerReplicas(e),
     worker_job_name |-> LonelyWorker, task |-> 0, is_chief |-> TRUE,
     master |-> EmptyMaster]

\* the chief chosen by task index instead of by job type
DistributedRoleChiefByIndex(r, t) ==
    [r EXCEPT !.worker_job_name = JobName(t), !.task = t.index,
              !.is_chief = (t.index = 0), !.master = ServerTarget(t)]

\* lines 199-202: the role of a task of a distributed job
DistributedRole(r, t) ==
    [r EXCEPT !.worker_job_name = JobName(t), !.task = t.index,
              !.is_chief = (t.type = "master"), !.master = ServerTarget(t)]

\* Python's exception classes: is e an instance of class c
IsInstance(e, c) == e = c \/ (c = "RuntimeError" /\ e = "NotImplementedError")

\* except Exception
CatchesException(e) == e \in {"RuntimeError", "NotImplementedError", "OpError"}

\* line 236: except RuntimeError
Catches(e) == IsInstance(e, "RuntimeError")

\* what trainer.train can do: return, or raise
TrainOutcomes == {"ok", "RuntimeError", "NotImplementedError", "OpError", "KeyboardInterrupt"}

-----------------------------------------------------------------------------
(* config_util: the loaders *)

NoConfigs == [loaded |-> FALSE, model |-> "", input |-> "", train |-> "", num_steps |-> 0]

LoadOk(paths) == paths \subseteq ExistingFiles

\* get_configs_from_pipeline_file(path)
GetConfigsFromPipelineFile(path, steps) ==
    [loaded |-> TRUE, model |-> path, input |-> path, train |-> path, num_steps |-> steps]

\* get_configs_from_multiple_files(model, train, input)
GetConfigsFromMultipleFiles(m, t, i, steps) ==
    [loaded |-> TRUE, model |-> m, input |-> i, train |-> t, num_steps |-> steps]

-----------------------------------------------------------------------------
Upd(f, p, v) == [f EXCEPT ![p] = v]

Raise(p, e) == /\ pc' = Upd(pc, p, "raised")
               /\ err' = Upd(err, p, e)

NoWired == [done |-> FALSE, model |-> "", input |-> "", num_steps |-> 0]
NoRole == [ps_tasks |-> 0, worker_replicas |-> 0, worker_job_name |-> LonelyWorker,
           task |-> 0, is_chief |-> FALSE, master |-> EmptyMaster]

\* line 121: assert FLAGS.train_dir
AssertTrainDir(p) ==
    /\ pc[p] = "start"
    /\ IF flags[p].train_dir # ""
         THEN pc' = Upd(pc, p, "reset") /\ UNCHANGED err
         ELSE Raise(p, "AssertionError")
    /\ UNCHANGED <<flags, environ, fileSteps, dir, caught, configs, wired, role,
                   server, trainCalls, loads, log, runs, afterReset>>

\* line 123: the test of reset_train and os.path.isdir
ResetCheck(p) ==
    /\ pc[p] = "reset"
    /\ pc' = Upd(pc, p, IF ShouldReset(flags[p], dir.exists) THEN "rmtree" ELSE "mkdirs")
    /\ UNCHANGED <<flags, environ, fileSteps, dir, err, caught, configs, wired, role,
                   server, trainCalls, loads, log, runs, afterReset>>

\* lines 124-125: shutil.rmtree(train_dir); it raises when the directory is gone
Rmtree(p) ==
    /\ pc[p] = "rmtree"
    /\ IF dir.exists
         THEN /\ dir' = NoDir
              /\ log' = Upd(log, p, Append(log[p], "rmtree"))
              /\ pc' = Upd(pc, p, "mkdirs")
              /\ UNCHANGED err
         ELSE /\ Raise(p, "FileNotFoundError")
              /\ UNCHANGED <<dir, log>>
    /\ UNCHANGED <<flags, environ, fileSteps, caught, configs, wired, role,
                   server, trainCalls, loads, runs, afterReset>>

\* line 127: if FLAGS.task == 0: tf.gfile.MakeDirs(train_dir)
MakeDirs(p) ==
    /\ pc[p] = "mkdirs"
    /\ IF IsPrimary(flags[p])
         THEN /\ dir' = [dir EXCEPT !.exists = TRUE]
              /\ log' = Upd(log, p, Append(log[p], "mkdirs"))
              /\ afterReset' = Upd(afterReset, p, Append(afterReset[p], dir'))
         ELSE /\ afterReset' = Upd(afterReset, p, Append(afterReset[p], dir))
              /\ UNCHANGED <<dir, log>>
    /\ pc' = Upd(pc, p, "load")
    /\ UNCHANGED <<flags, environ, fileSteps, err, caught, configs, wired, role,
                   server, trainCalls, loads, runs>>

\* lines 128-130, 135-139: load the bundle from one file or from three
LoadConfigs(p) ==
    LET f == flags[p] IN
    /\ pc[p] = "load"
    /\ IF UsePipeline(f)
         THEN /\ loads' = Upd(loads, p, Append(loads[p], "pipeline"))
              /\ IF LoadOk({f.pipeline_config_path})
                   THEN /\ configs' = Upd(configs, p,
                               GetConfigsFromPipelineFile(f.pipeline_config_path, fileSteps))
                        /\ pc' = Upd(pc, p, "copy")
                        /\ UNCHANGED err
                   ELSE Raise(p, "ConfigLoadError") /\ UNCHANGED configs
         ELSE /\ loads' = Upd(loads, p, Append(loads[p], "multiple"))
              /\ IF LoadOk({f.model_config_path, f.train_config_path, f.input_config_path})
                   THEN /\ configs' = Upd(configs, p,
                               GetConfigsFromMultipleFiles(f.model_config_path,
                                   f.train_config_path, f.input_config_path, fileSteps))
                        /\ pc' = Upd(pc, p, "copy")
                        /\ UNCHANGED err
                   ELSE Raise(p, "ConfigLoadError") /\ UNCHANGED configs
    /\ UNCHANGED <<flags, environ, fileSteps, dir, caught, wired, role,
                   server, trainCalls, log, runs, afterReset>>

\* the names copied into train_dir: line 133, or lines 141-143
CopyNames(f) ==
    IF UsePipeline(f) THEN <<"pipeline.config">>
    ELSE [i \in 1..Len(MultiCopies(f)) |-> MultiCopies(f)[i].name]

Range(s) == {s[i] : i \in 1..Len(s)}

\* lines 131-134, 140-145: if FLAGS.task == 0: tf.gfile.Copy(..., overwrite=True);
\* a copy into a directory that is gone raises
CopyConfigs(p) ==
    LET f == flags[p] IN
    /\ pc[p] = "copy"
    /\ IF IsPrimary(f)
         THEN IF dir.exists
                THEN /\ dir' = [dir EXCEPT !.files = @ \cup Range(CopyNames(f))]
                     /\ log' = Upd(log, p, log[p] \o CopyNames(f))
                     /\ pc' = Upd(pc, p, "override")
                     /\ UNCHANGED err
                ELSE /\ Raise(p, "IOError")
                     /\ UNCHANGED <<dir, log>>
         ELSE /\ pc' = Upd(pc, p, "override")
              /\ UNCHANGED <<dir, log, err>>
    /\ UNCHANGED <<flags, environ, fileSteps, caught, configs, wired, role,
                   server, trainCalls, loads, runs, afterReset>>

\* lines 147-152: train_config.num_steps = FLAGS.n_steps if it is positive
OverrideSteps(p) ==
    /\ pc[p] = "override"
    /\ configs' = Upd(configs, p,
           [configs[p] EXCEPT !.num_steps = OverrideNumSteps(flags[p].n_steps, @)])
    /\ pc' = Upd(pc, p, "wire")
    /\ UNCHANGED <<flags, environ, fileSteps, dir, err, caught, wired, role,
                   server, trainCalls, loads, log, runs, afterReset>>

\* lines 154-165: model_fn and create_input_dict_fn capture the bundle's parts
WireInputs(p) ==
    /\ pc[p] = "wire"
    /\ wired' = Upd(wired, p, [done |-> TRUE, model |-> configs[p].model,
                               input |-> configs[p].input,
                               num_steps |-> configs[p].num_steps])
    /\ pc' = Upd(pc, p, "resolve")
    /\ UNCHANGED <<flags, environ, fileSteps, dir, err, caught, configs, role,
                   server, trainCalls, loads, log, runs, afterReset>>

\* lines 167-190: the role of a single worker, the counts and the precondition
ResolveRole(p) ==
    LET r == SingleRole(flags[p], environ[p]) IN
    /\ pc[p] = "resolve"
    /\ role' = Upd(role, p, r)
    /\ IF TopologyError(r.worker_replicas, r.ps_tasks)
         THEN Raise(p, "ValueError")
         ELSE /\ pc' = Upd(pc, p, IF Distributed(r.worker_replicas, r.ps_tasks)
                                    THEN "server" ELSE "train")
              /\ UNCHANGED err
    /\ UNCHANGED <<flags, environ, fileSteps, dir, caught, configs, wired,
                   server, trainCalls, loads, log, runs, afterReset>>

\* lines 192-202: tf.train.Server(...), which may raise; a 'ps' task joins it,
\* any other task takes the role of its descriptor
StartServer(p) ==
    LET t == TaskData(environ[p]) IN
    /\ pc[p] = "server"
    /\ \E started \in BOOLEAN :
         IF started
           THEN /\ server' = Upd(server, p, Append(server[p],
                        [cluster |-> environ[p].cluster, job_name |-> t.type,
                         task_index |-> t.index, target |-> ServerTarget(t)]))
                /\ IF IsPsRole(t)
                     THEN pc' = Upd(pc, p, "join") /\ UNCHANGED role
                     ELSE /\ pc' = Upd(pc, p, "train")
                          /\ role' = Upd(role, p, DistributedRole(role[p], t))
                /\ UNCHANGED err
           ELSE /\ Raise(p, "ServerError")
                /\ UNCHANGED <<server, role>>
    /\ UNCHANGED <<flags, environ, fileSteps, dir, caught, configs, wired,
                   trainCalls, loads, log, runs, afterReset>>

\* lines 204-237: the call of trainer.train and the except clause
Train(p) ==
    /\ pc[p] = "train"
    /\ trainCalls' = Upd(trainCalls, p, Append(trainCalls[p],
           [num_steps |-> configs[p].num_steps, train |-> configs[p].train,
            model |-> wired[p].model, input |-> wired[p].input,
            master |-> role[p].master, task |-> role[p].task,
            worker_replicas |-> role[p].worker_replicas,
            ps_tasks |-> role[p].ps_tasks,
            worker_job_name |-> role[p].worker_job_name,
            is_chief |-> role[p].is_chief, train_dir |-> flags[p].train_dir]))
    /\ \E out \in TrainOutcomes :
         IF out = "ok"
           THEN /\ pc' = Upd(pc, p, "returned")
                /\ UNCHANGED <<err, caught>>
           ELSE IF Catches(out)
                  THEN /\ caught' = Upd(caught, p, out)
                       /\ pc' = Upd(pc, p, "returned")
                       /\ UNCHANGED err
                  ELSE Raise(p, out) /\ UNCHANGED caught
    /\ UNCHANGED <<flags, environ, fileSteps, dir, configs, wired, role,
                   server, loads, log, runs, afterReset>>

\* the same command is run again after main has ended
Restart(p) ==
    /\ pc[p] \in {"returned", "raised"}
    /\ runs[p] < MaxRuns
    /\ runs' = Upd(runs, p, runs[p] + 1)
    /\ pc' = Upd(pc, p, "start")
    /\ err' = Upd(err, p, "none")
    /\ caught' = Upd(caught, p, "none")
    /\ configs' = Upd(configs, p, NoConfigs)
    /\ wired' = Upd(wired, p, NoWired)
    /\ role' = Upd(role, p, NoRole)
    /\ server' = Upd(server, p, <<>>)
    /\ trainCalls' = Upd(trainCalls, p, <<>>)
    /\ loads' = Upd(loads, p, <<>>)
    /\ log' = Upd(log, p, <<>>)
    /\ UNCHANGED <<flags, environ, fileSteps, dir, afterReset>>

-----------------------------------------------------------------------------
(* Specifications *)

\* the state of the processes before main runs; process 1..n run, the others do not
InitProcs(n) ==
    /\ pc = [p \in Procs |-> IF p <= n THEN "start" ELSE "idle"]
    /\ err = [p \in Procs |-> "none"]
    /\ caught = [p \in Procs |-> "none"]
    /\ configs = [p \in Procs |-> NoConfigs]
    /\ wired = [p \in Procs |-> NoWired]
    /\ role = [p \in Procs |-> NoRole]
    /\ server = [p \in Procs |-> <<>>]
    /\ trainCalls = [p \in Procs |-> <<>>]
    /\ loads = [p \in Procs |-> <<>>]
    /\ log = [p \in Procs |-> <<>>]
    /\ runs = [p \in Procs |-> 1]
    /\ afterReset = [p \in Procs |-> <<>>]

Only1(x, d) == [p \in Procs |-> IF p = 1 THEN x ELSE d]

\* one process, every TF_CONFIG descriptor, the flags that name a role
RoleFlags ==
    {[DefaultFlags EXCEPT !.task = t, !.master = o.master,
         !.worker_replicas = o.worker_replicas, !.ps_tasks = o.ps_tasks,
         !.reset_train = r, !.pipeline_config_path = c.pipeline,
         !.model_config_path = c.model, !.train_config_path = c.train,
         !.input_config_path = c.input] :
        t \in {0, 1}, r \in {0, 1},
        o \in {[master |-> EmptyMaster, worker_replicas |-> 1, ps_tasks |-> 0],
               [master |-> FlagMaster, worker_replicas |-> 3, ps_tasks |-> 2]},
        c \in {[pipeline |-> PipelinePath, model |-> "", train |-> "", input |-> ""],
               [pipeline |-> "", model |-> ModelPath, train |-> TrainPath,
                input |-> InputPath]}}

Init ==
    /\ InitProcs(1)
    /\ \E f \in RoleFlags : flags = Only1(f, DefaultFlags)
    /\ \E e \in EnvSet : environ = Only1(e, NoTfConfig)
    /\ fileSteps = 1
    /\ dir \in {NoDir, StaleDir}

Step(p) ==
    \/ AssertTrainDir(p)
    \/ ResetCheck(p)
    \/ Rmtree(p)
    \/ MakeDirs(p)
    \/ LoadConfigs(p)
    \/ CopyConfigs(p)
    \/ OverrideSteps(p)
    \/ WireInputs(p)
    \/ ResolveRole(p)
    \/ StartServer(p)
    \/ Train(p)

Next == \E p \in Procs : Step(p)

Spec == Init /\ [][Next]_vars

\* one process, every setting of the configuration flags, three descriptors
ConfigFlags ==
    {[DefaultFlags EXCEPT !.train_dir = d, !.task = t, !.reset_train = r,
         !.pipeline_config_path = pp, !.model_config_path = mp,
         !.train_config_path = tp, !.input_config_path = ip, !.n_steps = n] :
        d \in {"", "train_dir"}, t \in {0, 1}, r \in {0, 1},
        pp \in {"", PipelinePath, MissingPath}, mp \in {"", ModelPath},
        tp \in {"", TrainPath}, ip \in {"", InputPath}, n \in -1..MaxSteps}

JobCluster == [has_worker |-> TRUE, worker |-> Hosts(1), has_ps |-> TRUE, ps |-> Hosts(1)]

TaskEnv(type, index) ==
    [set |-> TRUE, has_cluster |-> TRUE, cluster |-> JobCluster,
     has_task |-> TRUE, task |-> [type |-> type, index |-> index]]

\* a descriptor with one worker and no parameter server
WorkersOnlyEnv ==
    [set |-> TRUE, has_cluster |-> TRUE,
     cluster |-> [has_worker |-> TRUE, worker |-> Hosts(1), has_ps |-> FALSE, ps |-> <<>>],
     has_task |-> TRUE, task |-> [type |-> "worker", index |-> 0]]

InitConfig ==
    /\ InitProcs(1)
    /\ \E f \in ConfigFlags : flags = Only1(f, DefaultFlags)
    /\ \E e \in {NoTfConfig, TaskEnv("worker", 1), TaskEnv("ps", 0), WorkersOnlyEnv} :
          environ = Only1(e, NoTfConfig)
    /\ fileSteps \in 0..MaxSteps
    /\ dir \in {NoDir, StaleDir}

SpecConfig == InitConfig /\ [][Next]_vars

\* one process that runs the same command again and again
SeqFlags ==
    {[DefaultFlags EXCEPT !.task = t, !.reset_train = r, !.pipeline_config_path = c.pipeline,
         !.model_config_path = c.model, !.train_config_path = c.train,
         !.input_config_path = c.input] :
        t \in {0, 1}, r \in {0, 1},
        c \in {[pipeline |-> PipelinePath, model |-> "", train |-> "", input |-> ""],
               [pipeline |-> "", model |-> ModelPath, train |-> TrainPath,
                input |-> InputPath],
               [pipeline |-> MissingPath, model |-> "", train |-> "", input |-> ""]}}

InitSeq ==
    /\ InitProcs(1)
    /\ \E f \in SeqFlags : flags = Only1(f, DefaultFlags)
    /\ \E e \in {NoTfConfig, TaskEnv("master", 0), TaskEnv("worker", 1)} :
          environ = Only1(e, NoTfConfig)
    /\ fileSteps = 1
    /\ dir \in {NoDir, EmptyDir, StaleDir}

NextSeq == Next \/ \E p \in Procs : Restart(p)

SpecSeq == InitSeq /\ [][NextSeq]_vars

\* the processes of one distributed job, started on the same train_dir, each
\* with --task equal to the task index of its TF_CONFIG
JobFlags(index, reset) ==
    [DefaultFlags EXCEPT !.task = index, !.reset_train = reset,
                         !.pipeline_config_path = PipelinePath]

JobEnvs == {TaskEnv(type, i) : type \in {"master", "worker", "ps"}, i \in 0..MaxIndex}

InitJob ==
    /\ InitProcs(NumProcs)
    /\ environ \in [Procs -> JobEnvs]
    /\ \E r \in [Procs -> {0, 1}] :
          flags = [p \in Procs |-> JobFlags(environ[p].task.index, r[p])]
    /\ fileSteps = 1
    /\ dir \in {NoDir, StaleDir}

SpecJob == InitJob /\ [][Next]_vars

-----------------------------------------------------------------------------
(* What the properties read off a run *)

\* the descriptor as written in TF_CONFIG
HasWorkerList(e) == e.set /\ e.has_cluster /\ e.cluster.has_worker
HasPsList(e) == e.set /\ e.has_cluster /\ e.cluster.has_ps
WorkerLen(e) == IF HasWorkerList(e) THEN Len(e.cluster.worker) ELSE 0
PsLen(e) == IF HasPsList(e) THEN Len(e.cluster.ps) ELSE 0
DescType(e) == IF e.set /\ e.has_task THEN e.task.type ELSE "master"
DescIndex(e) == IF e.set /\ e.has_task THEN e.task.index ELSE 0

Active == {p \in Procs : pc[p] # "idle"}
Called(p) == trainCalls[p] # <<>>
Resolved(p) == role[p] # NoRole

\* the exceptions main can raise before it calls trainer.train
EarlyErrors == {"AssertionError", "FileNotFoundError", "ConfigLoadError", "IOError",
                "ValueError", "ServerError"}
\* the exceptions of the steps before role resolution
SetupErrors == {"AssertionError", "FileNotFoundError", "ConfigLoadError", "IOError"}

-----------------------------------------------------------------------------
\* C1 (as stated): a process whose task role type is 'ps' never calls
\* trainer.train, whatever its TF_CONFIG descriptor and flags, also when the
\* cluster mapping is missing or has no 'ps' entry.
C1_PsNeverTrains ==
    \A p \in Active : DescType(environ[p]) = "ps" => ~Called(p)

\* C1 (amended): a process whose task role type is 'ps' and whose cluster has a
\* non-empty 'ps' list never calls trainer.train and never returns from main:
\* once its server is started it is blocked in server.join(). A 'ps' process
\* calls trainer.train only when the cluster has no 'ps' entries and no
\* 'worker' entries, and then as the single 'lonely_worker'.
C1_PsJoinsInDistributedMode ==
    \A p \in Active : DescType(environ[p]) = "ps" =>
        /\ PsLen(environ[p]) > 0 =>
              /\ ~Called(p)
              /\ pc[p] \notin {"train", "returned"}
              /\ server[p] # <<>> => pc[p] = "join"
              /\ pc[p] = "raised" => err[p] \in SetupErrors \cup {"ServerError"}
        /\ Called(p) =>
              /\ PsLen(environ[p]) = 0 /\ WorkerLen(environ[p]) = 0
              /\ server[p] = <<>>
              /\ \A i \in 1..Len(trainCalls[p]) :
                    trainCalls[p][i].worker_job_name = LonelyWorker

\* a 'ps' process of a cluster with parameter servers, blocked in server.join()
C1_Witness ==
    \E p \in Active : /\ DescType(environ[p]) = "ps" /\ PsLen(environ[p]) > 0
                      /\ pc[p] = "join" /\ Len(server[p]) = 1

-----------------------------------------------------------------------------
\* C2: when the cluster's 'worker' list has k >= 1 entries and its 'ps' list is
\* absent or empty, main ends with the topology ValueError (unless an earlier
\* step already failed), before any server is started and before trainer.train
\* is called; and trainer.train is never called with worker_replicas > 1 and
\* ps_tasks < 1.
C2_WorkersNeedPs ==
    \A p \in Active :
        /\ (WorkerLen(environ[p]) >= 1 /\ PsLen(environ[p]) = 0) =>
              /\ ~Called(p)
              /\ server[p] = <<>>
              /\ pc[p] \notin {"server", "join", "train", "returned"}
              /\ pc[p] = "raised" => err[p] \in SetupErrors \cup {"ValueError"}
              /\ (pc[p] = "raised" /\ Resolved(p)) => err[p] = "ValueError"
        /\ \A i \in 1..Len(trainCalls[p]) :
              ~(trainCalls[p][i].worker_replicas > 1 /\ trainCalls[p][i].ps_tasks < 1)

\* workers without parameter servers: main has raised the ValueError
C2_Witness ==
    \E p \in Active : /\ WorkerLen(environ[p]) >= 1 /\ PsLen(environ[p]) = 0
                      /\ pc[p] = "raised" /\ err[p] = "ValueError"
                      /\ wired[p].done

-----------------------------------------------------------------------------
\* C3: only a process whose TF_CONFIG task index is 0 modifies the training
\* directory (creation, config copies, the reset_train deletion).
C3_OnlyTaskZeroWrites ==
    \A p \in Active : log[p] # <<>> => DescIndex(environ[p]) = 0

-----------------------------------------------------------------------------
\* C4: with pipeline_config_path non-empty the multi-file loader is never
\* called, none of model.config / train.config / input.config is copied and the
\* bundle (as wired and as passed to trainer.train) comes from the pipeline
\* file alone; with pipeline_config_path empty only the multi-file loader is
\* called and the primary copies exactly the three files.
C4_PipelineTakesPrecedence ==
    \A p \in Active :
        LET f == flags[p]
            three == {"model.config", "train.config", "input.config"}
            copied == Range(log[p]) \ {"rmtree", "mkdirs"}
        IN  IF f.pipeline_config_path # ""
              THEN /\ \A i \in 1..Len(loads[p]) : loads[p][i] = "pipeline"
                   /\ copied \subseteq {"pipeline.config"}
                   /\ configs[p].loaded =>
                         /\ configs[p].model = f.pipeline_config_path
                         /\ configs[p].train = f.pipeline_config_path
                         /\ configs[p].input = f.pipeline_config_path
                   /\ pc[p] \in {"copy", "override", "wire", "resolve", "server", "join",
                                 "train", "returned"} => loads[p] = <<"pipeline">>
                   /\ \A i \in 1..Len(trainCalls[p]) :
                         /\ trainCalls[p][i].model = f.pipeline_config_path
                         /\ trainCalls[p][i].train = f.pipeline_config_path
                         /\ trainCalls[p][i].input = f.pipeline_config_path
              ELSE /\ \A i \in 1..Len(loads[p]) : loads[p][i] = "multiple"
                   /\ copied \subseteq three
                   /\ pc[p] \in {"copy", "override", "wire", "resolve", "server", "join",
                                 "train", "returned"} => loads[p] = <<"multiple">>
                   /\ (f.task = 0 /\ pc[p] \in {"override", "wire", "resolve", "server",
                                                "join", "train", "returned"})
                         => copied = three
                   /\ \A i \in 1..Len(trainCalls[p]) :
                         /\ trainCalls[p][i].model = f.model_config_path
                         /\ trainCalls[p][i].train = f.train_config_path
                         /\ trainCalls[p][i].input = f.input_config_path

\* all four paths given: the primary has copied and trainer.train is called
C4_Witness ==
    \E p \in Active : /\ flags[p].pipeline_config_path = PipelinePath
                      /\ flags[p].model_config_path = ModelPath
                      /\ flags[p].train_config_path = TrainPath
                      /\ flags[p].input_config_path = InputPath
                      /\ flags[p].task = 0
                      /\ "pipeline.config" \in Range(log[p])
                      /\ Called(p)

-----------------------------------------------------------------------------
\* C5: once the role is resolved, a 'worker' list of length k (k = 0 included)
\* gives worker_replicas = k + 1 and a 'ps' list of length m gives ps_tasks = m,
\* and every call of trainer.train passes these two values.
C5_ReplicaCounts ==
    \A p \in Active :
        LET e == environ[p] IN
        /\ (Resolved(p) /\ HasWorkerList(e)) =>
              role[p].worker_replicas = Len(e.cluster.worker) + 1
        /\ (Resolved(p) /\ HasPsList(e)) => role[p].ps_tasks = Len(e.cluster.ps)
        /\ \A i \in 1..Len(trainCalls[p]) :
              /\ HasWorkerList(e) =>
                    trainCalls[p][i].worker_replicas = Len(e.cluster.worker) + 1
              /\ HasPsList(e) => trainCalls[p][i].ps_tasks = Len(e.cluster.ps)

\* trainer.train called for a cluster with two workers and one parameter server
C5_Witness ==
    \E p \in Active : /\ WorkerLen(environ[p]) = 2 /\ PsLen(environ[p]) = 1
                      /\ Called(p)
                      /\ trainCalls[p][1].worker_replicas = 3
                      /\ trainCalls[p][1].ps_tasks = 1

-----------------------------------------------------------------------------
-----------------------------------------------------------------------------
\* C7: with n_steps = n > 0 the train_config passed to trainer.train has
\* num_steps = n whatever the loaded value, with n_steps <= 0 the loaded value
\* is passed unchanged, and the value is already in place when model_fn and
\* create_input_dict_fn are built.
C7_StepsOverride ==
    \A p \in Active :
        LET n == flags[p].n_steps
            want == IF n > 0 THEN n ELSE fileSteps
        IN  /\ wired[p].done => wired[p].num_steps = want /\ configs[p].num_steps = want
            /\ \A i \in 1..Len(trainCalls[p]) : trainCalls[p][i].num_steps = want

\* n_steps = 2 over a loaded value of 1, trainer.train called
C7_Witness ==
    \E p \in Active : /\ flags[p].n_steps = 2 /\ fileSteps = 1
                      /\ Called(p) /\ trainCalls[p][1].num_steps = 2

-----------------------------------------------------------------------------
\* C8: trainer.train is called at most once; a RuntimeError it raises is caught
\* and main returns normally; any other exception it raises, and any exception
\* raised before the call, leaves main.
C8_OnlyRuntimeErrorSwallowed ==
    \A p \in Active :
        /\ Len(trainCalls[p]) <= 1
        /\ caught[p] # "none" =>
              /\ caught[p] \in {"RuntimeError", "NotImplementedError"}
              /\ Called(p) /\ pc[p] = "returned"
        /\ pc[p] = "returned" => err[p] = "none" /\ Called(p)
        /\ pc[p] = "raised" =>
              IF Called(p) THEN err[p] \in {"OpError", "KeyboardInterrupt"}
                           ELSE err[p] \in EarlyErrors
        /\ err[p] # "none" => pc[p] = "raised" /\ caught[p] = "none"

\* a RuntimeError of trainer.train swallowed: main has returned
C8_Witness ==
    \E p \in Active : /\ caught[p] = "RuntimeError" /\ pc[p] = "returned"
                      /\ err[p] = "none" /\ Len(trainCalls[p]) = 1

-----------------------------------------------------------------------------
\* C9: in distributed mode a process whose role type is not 'ps' calls
\* trainer.train only after starting one server for the descriptor's cluster,
\* job type and task index, and passes worker_job_name = '<type>/task:<index>',
\* task = index, is_chief = (type = 'master') and master = the server's target;
\* without a 'task' entry the type is 'master' and the index 0.
C9_DistributedRole ==
    \A p \in Active :
        LET e == environ[p]
            type == DescType(e)
            index == DescIndex(e)
        IN  (PsLen(e) > 0 /\ type # "ps") =>
              /\ pc[p] \in {"train", "returned"} => Len(server[p]) = 1
              /\ pc[p] = "returned" => Called(p)
              /\ \A i \in 1..Len(server[p]) :
                    /\ server[p][i].cluster = e.cluster
                    /\ server[p][i].job_name = type
                    /\ server[p][i].task_index = index
              /\ \A i \in 1..Len(trainCalls[p]) :
                    LET c == trainCalls[p][i] IN
                    /\ Len(server[p]) = 1
                    /\ c.worker_job_name = [name |-> type, sep |-> "/task:", index |-> index]
                    /\ c.task = index
                    /\ c.is_chief = (type = "master")
                    /\ c.master = server[p][1].target

\* worker 1 of a cluster with parameter servers has called trainer.train
C9_Witness ==
    \E p \in Active : /\ PsLen(environ[p]) > 0
                      /\ environ[p].has_task /\ environ[p].task.type = "worker"
                      /\ environ[p].task.index = 1
                      /\ Called(p) /\ ~trainCalls[p][1].is_chief

-----------------------------------------------------------------------------
\* C10: with reset_train nonzero, a second run on the same train_dir never
\* fails in its reset-and-create step: deletion is attempted only when the
\* directory exists, and the directory after that step is the one after the
\* first run's.
C10_ResetIdempotent ==
    \A p \in Active : flags[p].reset_train # 0 =>
        /\ pc[p] = "rmtree" => dir.exists
        /\ err[p] # "FileNotFoundError"
        /\ pc[p] \notin {"start", "reset", "rmtree", "mkdirs"} =>
              Len(afterReset[p]) = runs[p]
        /\ \A i \in 1..Len(afterReset[p]) : afterReset[p][i] = afterReset[p][1]

\* the second run has deleted the directory the first run filled, and made it again
C10_Witness ==
    \E p \in Active : /\ flags[p].reset_train # 0 /\ flags[p].task = 0
                      /\ runs[p] = 2 /\ Len(afterReset[p]) = 2
                      /\ "rmtree" \in Range(log[p])
                      /\ pc[p] = "load"

====
